---- MODULE Spec2Model ----
(***************************************************************************)
(* A model of spirited_away_analysis.py: the SpiritedAwayAnalyzer object   *)
(* (its fields lines, script_text, characters), the locals of its methods  *)
(* that the results are built in, and the driver main().  Python strings   *)
(* are TLA+ strings; the string methods the code calls (strip, lower,      *)
(* startswith, in, join, split) are operators computed character by        *)
(* character.  Plotting and image export are external collaborators and    *)
(* change none of the modelled state.                                      *)
(***************************************************************************)
EXTENDS Integers, Sequences, FiniteSets, TLC

VARIABLES
    file_status,      \* what open()/read() of script_file does: "ok", "missing", "undecodable"
    file_text,        \* the file's text when it can be read
    script_text,      \* self.script_text
    lines,            \* self.lines
    characters,       \* self.characters
    character_lines,  \* extract_characters: local character_lines
    character_count,  \* extract_characters: local character_count
    idx,              \* extract_characters: position of the for loop over self.lines (1-based)
    caller,           \* which method called extract_characters
    filtered_chars,   \* analyze_characters / generate_summary_report: local filtered_chars
    seg,              \* sentiment_analysis: the loop's locals, one record per iteration
    scores,           \* sentiment_analysis: sentiment_scores as returned
    G,                \* create_character_network: the graph returned
    most_active,      \* generate_summary_report: the character printed as most active
    log,              \* the progress lines printed so far, one tag per print
    pc,               \* position of main()
    run,              \* how many times the analysis steps were started on this analyzer
    prev              \* results of the previous run of the analysis steps

vars == <<file_status, file_text, script_text, lines, characters, character_lines,
          character_count, idx, caller, filtered_chars, seg, scores, G, most_active,
          log, pc, run, prev>>

-----------------------------------------------------------------------------
(* Bounds of the model *)

\* scripts of up to MaxShort lines are enumerated exhaustively over LinePool
MaxShort == 2
\* longer scripts, up to MaxLines lines, are enumerated by stride and offset
MaxLines == 21
\* the analysis steps are started at most MaxRuns times on one analyzer (SpecTwice)
MaxRuns == 2

\* "no value yet" for a name or a tag, for the scores and for the graph
None == "None"
NoScores == <<>>
NoGraph == [nodes |-> {}, adj |-> <<>>]

-----------------------------------------------------------------------------
(* Python string methods *)

Min(a, b) == IF a < b THEN a ELSE b
Max(a, b) == IF a > b THEN a ELSE b

UpperCase == <<"A","B","C","D","E","F","G","H","I","J","K","L","M",
               "N","O","P","Q","R","S","T","U","V","W","X","Y","Z">>
LowerCase == <<"a","b","c","d","e","f","g","h","i","j","k","l","m",
               "n","o","p","q","r","s","t","u","v","w","x","y","z">>

\* the lower-case letter of every upper-case letter
LowerOf == [ch \in {UpperCase[k] : k \in 1..26} |->
               LowerCase[CHOOSE k \in 1..26 : UpperCase[k] = ch]]

\* str.lower() of one character
LowerChar(ch) == IF ch \in DOMAIN LowerOf THEN LowerOf[ch] ELSE ch

\* str.lower(): every character lowered, in order (the string is halved to keep
\* the evaluation shallow)
RECURSIVE lower(_)
lower(s) ==
    IF Len(s) = 0 THEN ""
    ELSE IF Len(s) = 1 THEN LowerChar(s)
    ELSE lower(SubSeq(s, 1, Len(s) \div 2)) \o lower(SubSeq(s, (Len(s) \div 2) + 1, Len(s)))

\* the characters str.strip() removes
IsSpace(ch) == ch \in {" ", "\t"}

RECURSIVE lstrip(_)
lstrip(s) ==
    IF Len(s) > 0 /\ IsSpace(SubSeq(s, 1, 1)) THEN lstrip(SubSeq(s, 2, Len(s))) ELSE s

RECURSIVE rstrip(_)
rstrip(s) ==
    IF Len(s) > 0 /\ IsSpace(SubSeq(s, Len(s), Len(s)))
    THEN rstrip(SubSeq(s, 1, Len(s) - 1)) ELSE s

\* str.strip()
strip(s) == rstrip(lstrip(s))

\* str.startswith(prefix)
startswith(s, prefix) ==
    /\ Len(s) >= Len(prefix)
    /\ SubSeq(s, 1, Len(prefix)) = prefix

\* sub in s
Contains(sub, s) ==
    \E i \in 1..(Len(s) - Len(sub) + 1) : SubSeq(s, i, i + Len(sub) - 1) = sub

\* sep.join(seq)
RECURSIVE join(_, _)
join(sep, seq) ==
    IF Len(seq) = 0 THEN ""
    ELSE IF Len(seq) = 1 THEN seq[1]
    ELSE seq[1] \o sep \o join(sep, Tail(seq))

\* s.split(sep) for a one-character sep: the piece up to the next sep at or
\* after position i, then the pieces of the rest
NextSep(s, sep, i) ==
    IF \E j \in i..Len(s) : SubSeq(s, j, j) = sep
    THEN CHOOSE j \in i..Len(s) :
            /\ SubSeq(s, j, j) = sep
            /\ \A k \in i..(j - 1) : SubSeq(s, k, k) # sep
    ELSE 0

RECURSIVE splitFrom(_, _, _)
splitFrom(s, sep, i) ==
    IF NextSep(s, sep, i) = 0 THEN <<SubSeq(s, i, Len(s))>>
    ELSE <<SubSeq(s, i, NextSep(s, sep, i) - 1)>> \o splitFrom(s, sep, NextSep(s, sep, i) + 1)

split(s, sep) == splitFrom(s, sep, 1)

\* seq[a:b], a Python slice with 0 <= a
Slice(seq, a, b) == SubSeq(seq, a + 1, Min(b, Len(seq)))

-----------------------------------------------------------------------------
(* The script files the model reads *)

LinePool == <<
    "Chihiro sees Haku.",
    "",
    "*stage direction*",
    "Haku is gone.",
    "  Haku walks in.  ",
    "<Haku enters>",
    "HAKU! haku, thanks",
    "this is good and bad",
    "good, good... bad",
    "sorry, Dad is sad",
    " \t",
    "Mom, no face loves Rin",
    " *Rin runs*" >>

PoolSize == Len(LinePool)

\* the strides of the longer scripts
Strides == {1, 4}

ShortScripts == UNION {[1..n -> {LinePool[k] : k \in 1..PoolSize}] : n \in 1..MaxShort}

PatternScript(n, stride, offset) ==
    [i \in 1..n |-> LinePool[((offset + stride * i) % PoolSize) + 1]]

LongScripts ==
    {PatternScript(n, st, off) :
        n \in (MaxShort + 1)..MaxLines, st \in Strides, off \in 0..(PoolSize - 1)}

\* the scripts the specification's examples use
ExampleScript == <<"Chihiro sees Haku.", "", "*stage direction*", "Haku is gone.">>

Scripts == ShortScripts \cup LongScripts \cup {ExampleScript}

\* a file holds its lines separated by newlines
FileTexts == {join("\n", s) : s \in Scripts}

-----------------------------------------------------------------------------
(* extract_characters *)

\* extract_characters: main_characters
main_characters == <<"Chihiro", "Haku", "Yobaba", "Zeniba", "Rin",
                     "No Face", "Grandpa Kama", "Mom", "Dad">>

Roster == {main_characters[k] : k \in 1..Len(main_characters)}

\* character_lines = {char: [] for char in main_characters}
InitialLines == [c \in Roster |-> <<>>]

\* a count that is carried over from the previous call
InitialCountCarried ==
    IF DOMAIN characters = Roster THEN characters ELSE [c \in Roster |-> 0]

\* character_count = {char: 0 for char in main_characters}
InitialCount == [c \in Roster |-> 0]

\* the test that lets a markup line through when it starts with '<'
EligibleNoAngle(line) == line # "" /\ ~startswith(line, "*")

\* line and not line.startswith('<') and not line.startswith('*')
Eligible(line) ==
    /\ line # ""
    /\ ~startswith(line, "<")
    /\ ~startswith(line, "*")

\* char.lower() in line.lower(), given line.lower()
Matches(char, lowered) == Contains(lower(char), lowered)

\* how many times sub occurs in s, scanning left to right without overlap (str.count)
RECURSIVE CountFrom(_, _, _)
CountFrom(sub, s, i) ==
    IF i + Len(sub) - 1 > Len(s) THEN 0
    ELSE IF SubSeq(s, i, i + Len(sub) - 1) = sub
         THEN 1 + CountFrom(sub, s, i + Len(sub))
         ELSE CountFrom(sub, s, i + 1)

Occurrences(sub, s) == CountFrom(sub, s, 1)

\* a loop body that counts every occurrence of the name in the line
ScanLinePerOccurrence(cl, cc, raw) ==
    LET line == strip(raw)
        lowered == lower(line)
        hit == {c \in Roster : Matches(c, lowered)}
    IN IF Eligible(line)
       THEN [lines |-> [c \in Roster |-> IF c \in hit THEN Append(cl[c], line) ELSE cl[c]],
             count |-> [c \in Roster |-> cc[c] + Occurrences(lower(c), lowered)]]
       ELSE [lines |-> cl, count |-> cc]

\* the body of "for line in self.lines": the locals after one line is processed;
\* hit holds the characters for which "char.lower() in line.lower()" is true
ScanLine(cl, cc, raw) ==
    LET line == strip(raw)
        lowered == lower(line)
        hit == {c \in Roster : Matches(c, lowered)}
    IN IF Eligible(line)
       THEN [lines |-> [c \in Roster |-> IF c \in hit THEN Append(cl[c], line) ELSE cl[c]],
             count |-> [c \in Roster |-> IF c \in hit THEN cc[c] + 1 ELSE cc[c]]]
       ELSE [lines |-> cl, count |-> cc]

\* {k: v for k, v in character_count.items() if v > 0}
Filtered(cc) == [c \in {k \in DOMAIN cc : cc[k] > 0} |-> cc[c]]

\* max(filtered_chars, key=filtered_chars.get): the first key, in the dict's
\* (the roster's) order, whose count no other exceeds
MaxKey(fc) ==
    LET k == CHOOSE k \in 1..Len(main_characters) :
                /\ main_characters[k] \in DOMAIN fc
                /\ \A c \in DOMAIN fc : fc[c] <= fc[main_characters[k]]
                /\ \A j \in 1..(k - 1) :
                      main_characters[j] \in DOMAIN fc
                          => fc[main_characters[j]] < fc[main_characters[k]]
    IN main_characters[k]

-----------------------------------------------------------------------------
(* sentiment_analysis *)

positive_words == <<"good", "great", "wonderful", "beautiful", "happy", "love", "nice",
                    "amazing", "fantastic", "excellent", "perfect", "thank", "thanks">>

negative_words == <<"bad", "terrible", "awful", "sad", "angry", "hate", "horrible",
                    "scary", "afraid", "worried", "sorry", "hurt", "pain", "die">>

\* for i in range(10)
NumSegments == 10
\* ... if i < 9
LastSegment == 9

\* a segment size that is never zero
SegmentSizeGuarded(total_lines) == Max(1, total_lines \div NumSegments)

\* segment_size = total_lines // 10
SegmentSize(total_lines) == total_lines \div NumSegments

\* start = i * segment_size
SegmentStart(i, segment_size) == i * segment_size

\* an end that gives every segment segment_size lines
SegmentEndUniform(i, segment_size, total_lines) == SegmentStart(i, segment_size) + segment_size

\* end = start + segment_size if i < 9 else total_lines
SegmentEnd(i, segment_size, total_lines) ==
    IF i < LastSegment THEN SegmentStart(i, segment_size) + segment_size ELSE total_lines

\* segment_text = ' '.join(self.lines[start:end]).lower()
SegmentText(ls, start, end) == lower(join(" ", Slice(ls, start, end)))

\* the occurrences of the first k words in the text, added up
RECURSIVE SumOccurrences(_, _, _)
SumOccurrences(words, text, k) ==
    IF k = 0 THEN 0 ELSE Occurrences(words[k], text) + SumOccurrences(words, text, k - 1)

\* a count of every occurrence of every word
CountWordOccurrences(words, text) == SumOccurrences(words, text, Len(words))

\* sum(1 for word in words if word in segment_text)
CountWords(words, text) == Cardinality({k \in 1..Len(words) : Contains(words[k], text)})

RECURSIVE GCD(_, _)
GCD(a, b) == IF b = 0 THEN a ELSE GCD(b, a % b)

Abs(n) == IF n < 0 THEN 0 - n ELSE n

\* the quotient n / d (d > 0) as a fraction in lowest terms: two quotients of
\* small integers are the same float exactly when these fractions are equal
Quotient(n, d) == <<n \div GCD(Abs(n), d), d \div GCD(Abs(n), d)>>

\* a score that is the difference of the counts, not divided
SentimentUnscaled(pos_count, neg_count) == Quotient(pos_count - neg_count, 1)

\* sentiment = (pos_count - neg_count) / total_emotional_words if it is > 0, else 0
Sentiment(pos_count, neg_count) ==
    IF pos_count + neg_count > 0
    THEN Quotient(pos_count - neg_count, pos_count + neg_count)
    ELSE Quotient(0, 1)

\* the locals of iteration i (0-based) of the loop over the segments
SegmentLocals(ls, i) ==
    LET total_lines == Len(ls)
        segment_size == SegmentSize(total_lines)
        start == SegmentStart(i, segment_size)
        end == SegmentEnd(i, segment_size, total_lines)
        segment_text == SegmentText(ls, start, end)
        pos_count == CountWords(positive_words, segment_text)
        neg_count == CountWords(negative_words, segment_text)
    IN [start |-> start, end |-> end, segment_size |-> segment_size,
        pos_count |-> pos_count, neg_count |-> neg_count,
        sentiment |-> Sentiment(pos_count, neg_count)]

-----------------------------------------------------------------------------
(* create_character_network *)

\* create_character_network: main_characters
network_characters == <<"Chihiro", "Haku", "Yobaba", "Zeniba", "Rin", "No Face", "Grandpa Kama">>

NetworkRoster == {network_characters[k] : k \in 1..Len(network_characters)}

relationships == <<
    <<"Chihiro", "Haku", 3>>,
    <<"Chihiro", "Yobaba", 2>>,
    <<"Chihiro", "Rin", 2>>,
    <<"Chihiro", "No Face", 2>>,
    <<"Chihiro", "Grandpa Kama", 1>>,
    <<"Haku", "Yobaba", 2>>,
    <<"Yobaba", "Zeniba", 1>>,
    <<"Rin", "Grandpa Kama", 1>>,
    <<"Chihiro", "Zeniba", 1>> >>

\* nx.Graph()
EmptyGraph == [nodes |-> {}, adj |-> <<>>]

\* d[key] = value on a dict held as a function
Put(d, key, value) == [x \in DOMAIN d \cup {key} |-> IF x = key THEN value ELSE d[x]]

\* G.add_node(n)
AddNode(g, n) ==
    IF n \in g.nodes THEN g
    ELSE [nodes |-> g.nodes \cup {n}, adj |-> Put(g.adj, n, <<>>)]

\* an add_edge that records the edge at its first endpoint only
AddEdgeOneWay(g, u, v, weight) ==
    LET h == AddNode(AddNode(g, u), v)
    IN [h EXCEPT !.adj = Put(h.adj, u, Put(h.adj[u], v, weight))]

\* G.add_edge(u, v, weight=weight): both endpoints become nodes, and each is
\* the other's neighbour with that weight
AddEdge(g, u, v, weight) ==
    LET h == AddNode(AddNode(g, u), v)
        a == Put(h.adj, u, Put(h.adj[u], v, weight))
    IN [h EXCEPT !.adj = Put(a, v, Put(a[v], u, weight))]

\* for char in main_characters: G.add_node(char)
RECURSIVE AddNodes(_, _, _)
AddNodes(g, chars, k) ==
    IF k > Len(chars) THEN g ELSE AddNodes(AddNode(g, chars[k]), chars, k + 1)

\* for char1, char2, weight in relationships: add the edge if both are in main_characters
RECURSIVE AddEdges(_, _, _, _)
AddEdges(g, chars, rels, k) ==
    IF k > Len(rels) THEN g
    ELSE LET char1 == rels[k][1]
             char2 == rels[k][2]
             weight == rels[k][3]
             inList(c) == \E j \in 1..Len(chars) : chars[j] = c
         IN AddEdges(IF inList(char1) /\ inList(char2)
                     THEN AddEdge(g, char1, char2, weight) ELSE g,
                     chars, rels, k + 1)

BuildGraph(chars, rels) == AddEdges(AddNodes(EmptyGraph, chars, 1), chars, rels, 1)

\* G.degree(node): the node's neighbours, a self-loop counted twice
Degree(g, n) ==
    Cardinality(DOMAIN g.adj[n]) + (IF n \in DOMAIN g.adj[n] THEN 1 ELSE 0)

\* G.edges(): the unordered pairs of a node and one of its neighbours
Edges(g) == UNION {{{u, v} : v \in DOMAIN g.adj[u]} : u \in g.nodes}

-----------------------------------------------------------------------------
(* The analyzer after __init__, and main() before load_script *)

Init ==
    /\ file_status \in {"ok", "missing", "undecodable"}
    /\ file_text \in (IF file_status = "ok" THEN FileTexts ELSE {""})
    /\ script_text = ""
    /\ lines = <<>>
    /\ characters = <<>>
    /\ character_lines = <<>>
    /\ character_count = <<>>
    /\ idx = 0
    /\ caller = None
    /\ filtered_chars = <<>>
    /\ seg = <<>>
    /\ scores = NoScores
    /\ G = NoGraph
    /\ most_active = None
    /\ log = <<>>
    /\ pc = "load"
    /\ run = 1
    /\ prev = <<>>

\* main() goes on although load_script returned False
AfterLoadUnchecked(ok) == "wordcloud"

\* if not analyzer.load_script(): return
AfterLoad(ok) == IF ok THEN "wordcloud" ELSE "aborted"

\* load_script, and main's test of what it returns
LoadScript ==
    /\ pc = "load"
    /\ IF file_status = "ok"
       THEN /\ script_text' = file_text
            /\ lines' = split(file_text, "\n")
            /\ log' = Append(log, "loaded")
            /\ pc' = AfterLoad(TRUE)
       ELSE /\ log' = Append(log, "load_failed")
            /\ pc' = AfterLoad(FALSE)
            /\ UNCHANGED <<script_text, lines>>
    /\ UNCHANGED <<file_status, file_text, characters, character_lines, character_count,
                   idx, caller, filtered_chars, seg, scores, G, most_active, run, prev>>

\* create_wordcloud: renders from a cleaned copy of script_text; no field changes
CreateWordcloud ==
    /\ pc = "wordcloud"
    /\ log' = Append(log, "wordcloud")
    /\ pc' = "analyze"
    /\ UNCHANGED <<file_status, file_text, script_text, lines, characters, character_lines,
                   character_count, idx, caller, filtered_chars, seg, scores, G,
                   most_active, run, prev>>

\* extract_characters up to its loop: the two dicts are created
ExtractStart(from) ==
    /\ character_lines' = InitialLines
    /\ character_count' = InitialCount
    /\ idx' = 1
    /\ caller' = from
    /\ pc' = "scan"

\* analyze_characters calls extract_characters
AnalyzeCharactersCall ==
    /\ pc = "analyze"
    /\ ExtractStart("analyze_characters")
    /\ UNCHANGED <<file_status, file_text, script_text, lines, characters, filtered_chars,
                   seg, scores, G, most_active, log, run, prev>>

\* one iteration of "for line in self.lines"
ExtractLine ==
    /\ pc = "scan"
    /\ idx <= Len(lines)
    /\ LET r == ScanLine(character_lines, character_count, lines[idx])
       IN /\ character_lines' = r.lines
          /\ character_count' = r.count
    /\ idx' = idx + 1
    /\ UNCHANGED <<file_status, file_text, script_text, lines, characters, caller,
                   filtered_chars, seg, scores, G, most_active, log, pc, run, prev>>

\* the loop is over: self.characters = character_count; return
ExtractReturn ==
    /\ pc = "scan"
    /\ idx > Len(lines)
    /\ characters' = character_count
    /\ pc' = IF caller = "analyze_characters" THEN "analyze_ret" ELSE "report_ret"
    /\ UNCHANGED <<file_status, file_text, script_text, lines, character_lines,
                   character_count, idx, caller, filtered_chars, seg, scores, G,
                   most_active, log, run, prev>>

\* analyze_characters after the call: filters, plots, returns filtered_chars
AnalyzeCharactersFinish ==
    /\ pc = "analyze_ret"
    /\ filtered_chars' = Filtered(character_count)
    /\ character_lines' = <<>>
    /\ character_count' = <<>>
    /\ idx' = 0
    /\ caller' = None
    /\ log' = Append(log, "characters")
    /\ pc' = "sentiment"
    /\ UNCHANGED <<file_status, file_text, script_text, lines, characters, seg, scores, G,
                   most_active, run, prev>>

\* sentiment_analysis: the ten iterations of its loop, then the plot
SentimentAnalysis ==
    /\ pc = "sentiment"
    /\ seg' = [k \in 1..NumSegments |-> SegmentLocals(lines, k - 1)]
    /\ scores' = [k \in 1..NumSegments |-> seg'[k].sentiment]
    /\ log' = Append(log, "sentiment")
    /\ pc' = "network"
    /\ UNCHANGED <<file_status, file_text, script_text, lines, characters, character_lines,
                   character_count, idx, caller, filtered_chars, G, most_active, run, prev>>

\* create_character_network
CreateCharacterNetwork ==
    /\ pc = "network"
    /\ G' = BuildGraph(network_characters, relationships)
    /\ log' = Append(log, "network")
    /\ pc' = "report"
    /\ UNCHANGED <<file_status, file_text, script_text, lines, characters, character_lines,
                   character_count, idx, caller, filtered_chars, seg, scores, most_active,
                   run, prev>>

\* generate_summary_report prints its header and calls extract_characters
GenerateSummaryReportCall ==
    /\ pc = "report"
    /\ log' = Append(log, "report")
    /\ ExtractStart("generate_summary_report")
    /\ UNCHANGED <<file_status, file_text, script_text, lines, characters, filtered_chars,
                   seg, scores, G, most_active, run, prev>>

\* generate_summary_report after the call: filters, ranks, prints the most
\* active character; max() of an empty dict raises ValueError, which nothing catches
GenerateSummaryReportFinish ==
    /\ pc = "report_ret"
    /\ filtered_chars' = Filtered(character_count)
    /\ character_lines' = <<>>
    /\ character_count' = <<>>
    /\ idx' = 0
    /\ caller' = None
    /\ IF DOMAIN Filtered(character_count) = {}
       THEN /\ pc' = "crashed"
            /\ UNCHANGED most_active
       ELSE /\ pc' = "report_done"
            /\ most_active' = MaxKey(Filtered(character_count))
    /\ UNCHANGED <<file_status, file_text, script_text, lines, characters, seg, scores, G,
                   log, run, prev>>

\* main prints that the analysis is completed
MainFinish ==
    /\ pc = "report_done"
    /\ log' = Append(log, "completed")
    /\ pc' = "done"
    /\ UNCHANGED <<file_status, file_text, script_text, lines, characters, character_lines,
                   character_count, idx, caller, filtered_chars, seg, scores, G,
                   most_active, run, prev>>

Next ==
    \/ LoadScript
    \/ CreateWordcloud
    \/ AnalyzeCharactersCall
    \/ ExtractLine
    \/ ExtractReturn
    \/ AnalyzeCharactersFinish
    \/ SentimentAnalysis
    \/ CreateCharacterNetwork
    \/ GenerateSummaryReportCall
    \/ GenerateSummaryReportFinish
    \/ MainFinish

Spec == Init /\ [][Next]_vars

\* the analysis steps of main are run once more on the same loaded analyzer;
\* what the previous run returned is kept for comparison
RunAgain ==
    /\ pc = "done"
    /\ run < MaxRuns
    /\ run' = run + 1
    /\ prev' = [lines |-> lines, characters |-> characters, scores |-> scores, G |-> G]
    /\ filtered_chars' = <<>>
    /\ seg' = <<>>
    /\ scores' = NoScores
    /\ G' = NoGraph
    /\ most_active' = None
    /\ pc' = "wordcloud"
    /\ UNCHANGED <<file_status, file_text, script_text, lines, characters, character_lines,
                   character_count, idx, caller, log>>

NextTwice == Next \/ RunAgain

SpecTwice == Init /\ [][NextTwice]_vars

-----------------------------------------------------------------------------
(* Mention extraction: claims C1 and C10 *)

\* extract_characters has returned to its caller, which still holds the two dicts
ExtractReturned == pc \in {"analyze_ret", "report_ret"}

\* name stands in t at position i, whatever the case of the letters
NameAt(name, t, i) ==
    \A j \in 1..Len(name) :
        LowerChar(SubSeq(t, i + j - 1, i + j - 1)) = LowerChar(SubSeq(name, j, j))

\* the condition of C1 on a trimmed line t and a roster name: t is non-empty,
\* its first character is neither '<' nor '*', and the name stands somewhere in it
Mentions(name, t) ==
    /\ Len(t) > 0
    /\ SubSeq(t, 1, 1) \notin {"<", "*"}
    /\ \E i \in 1..(Len(t) - Len(name) + 1) : NameAt(name, t, i)

\* the lines of ls (already trimmed) that mention name, in the order of ls
MentioningLines(name, ls) ==
    LET Test(t) == Mentions(name, t) IN SelectSeq(ls, Test)

\* C1: when extract_characters returns, a character's mention record holds
\* exactly the lines that, trimmed, are non-empty, do not start with '<' or
\* '*' and contain the name whatever the case of its letters; its count is the
\* number of those lines (one per line however often the name occurs in it, a
\* line counted for every character it names); the example script gives
\* Chihiro 1 and Haku 2
C1_MentionIffNameInTextLine ==
    ExtractReturned =>
        LET trimmed == [i \in 1..Len(lines) |-> strip(lines[i])]
        IN /\ \A c \in Roster :
                 /\ character_lines[c] = MentioningLines(c, trimmed)
                 /\ character_count[c] =
                       Cardinality({i \in 1..Len(lines) : Mentions(c, trimmed[i])})
           /\ lines = ExampleScript =>
                 /\ character_count["Chihiro"] = 1
                 /\ character_count["Haku"] = 2

\* a line naming Haku twice and a line naming two characters were scanned:
\* Haku is counted once for each line, Chihiro once
C1_Witness ==
    /\ ExtractReturned
    /\ lines = <<"HAKU! haku, thanks", "Chihiro sees Haku.">>
    /\ character_count["Haku"] = 2
    /\ character_count["Chihiro"] = 1
    /\ character_count["Rin"] = 0

\* a is b with some elements left out: a's elements are found in b in order
RECURSIVE IsSubseqFrom(_, _, _, _)
IsSubseqFrom(a, b, i, j) ==
    IF i > Len(a) THEN TRUE
    ELSE IF j > Len(b) THEN FALSE
    ELSE IF a[i] = b[j] THEN IsSubseqFrom(a, b, i + 1, j + 1)
    ELSE IsSubseqFrom(a, b, i, j + 1)

IsSubseq(a, b) == IsSubseqFrom(a, b, 1, 1)

\* the two dicts of extract_characters exist
ExtractLocalsLive == DOMAIN character_count = Roster

\* the lines the scan has passed
Scanned == SubSeq(lines, 1, Min(idx - 1, Len(lines)))

\* C10 as stated: at every step of the scan and after it, a character's count
\* is the length of its line sequence, and that sequence is a subsequence of
\* the script's lines
C10_LinesAreScriptLines ==
    ExtractLocalsLive =>
        \A c \in Roster :
            /\ character_count[c] = Len(character_lines[c])
            /\ IsSubseq(character_lines[c], lines)

\* C10 as amended: at every step of the scan and after it, a character's count
\* is the length of its line sequence, and that sequence is a subsequence of
\* the script's lines each trimmed of its surrounding whitespace (of those the
\* scan has passed), in their original order
C10_CountIsLengthOfTrimmedSubsequence ==
    ExtractLocalsLive =>
        \A c \in Roster :
            /\ character_count[c] = Len(character_lines[c])
            /\ IsSubseq(character_lines[c], [i \in 1..Len(Scanned) |-> strip(Scanned[i])])

\* in the middle of a scan a character has two lines recorded, the first
\* of them a line the script holds with whitespace around it
C10_Witness ==
    /\ pc = "scan"
    /\ idx <= Len(lines)
    /\ Len(character_lines["Haku"]) = 2
    /\ character_count["Haku"] = 2
    /\ character_lines["Haku"][1] = "Haku walks in."
    /\ \A i \in 1..Len(lines) : lines[i] # "Haku walks in."

-----------------------------------------------------------------------------
(* The driver: claims C5 and C3 *)

\* the progress lines of a run of main whose load succeeds, in order
PipelineOrder == <<"loaded", "wordcloud", "characters", "sentiment", "network",
                   "report", "completed">>

IsPrefix(a, b) == Len(a) <= Len(b) /\ a = SubSeq(b, 1, Len(a))

\* C5: when load_script fails nothing but the failure is ever printed and no
\* analysis result ever exists; when it succeeds the steps run in the fixed
\* order word cloud, characters, sentiment, network, report, each after the load
C5_LoadFailureAborts ==
    /\ file_status # "ok" =>
          /\ log \in {<<>>, <<"load_failed">>}
          /\ pc \in {"load", "aborted"}
          /\ lines = <<>> /\ characters = <<>> /\ filtered_chars = <<>>
          /\ scores = NoScores /\ G = NoGraph /\ most_active = None
    /\ file_status = "ok" => IsPrefix(log, PipelineOrder)
    /\ pc \notin {"load", "aborted"} => (file_status = "ok" /\ log[1] = "loaded")

\* the load has failed and main has returned
C5_Witness ==
    /\ file_status = "undecodable"
    /\ pc = "aborted"
    /\ log = <<"load_failed">>

\* what the report may say when no character is mentioned
NoCharactersFound == "no characters found"

\* C3: when every roster character has zero mentions the report does not
\* crash: it completes, with the most active character omitted or reported
\* as not found
C3_ReportSurvivesNoMentions ==
    (/\ pc \in {"report_done", "done", "crashed"}
     /\ \A c \in Roster : characters[c] = 0)
        => /\ pc # "crashed"
           /\ most_active \in {None, NoCharactersFound}

-----------------------------------------------------------------------------
(* Sentiment scoring: claims C2, C6, C4 and C8 *)

\* sentiment_analysis has just returned its scores to main
Scored == pc = "network" /\ scores # NoScores

\* the bounds the specification gives segment k (1-based): [lo, hi) over the lines
SpecLo(k, total) == (k - 1) * (total \div 10)
SpecHi(k, total) == IF k < 10 THEN k * (total \div 10) ELSE total

RECURSIVE SumLengths(_, _)
SumLengths(sg, k) == IF k = 0 THEN 0 ELSE (sg[k].end - sg[k].start) + SumLengths(sg, k - 1)

\* C2: for a script of at least 10 lines the ten segments have the stated
\* bounds, follow one another without gap or overlap from line 0 to the last
\* line, their lengths sum to total_lines, and every line is in exactly one
C2_SegmentsPartitionLines ==
    (Scored /\ Len(lines) >= 10) =>
        LET total == Len(lines) IN
        /\ Len(seg) = 10
        /\ \A k \in 1..10 :
              /\ seg[k].start = SpecLo(k, total)
              /\ seg[k].end = SpecHi(k, total)
              /\ seg[k].start <= seg[k].end
        /\ seg[1].start = 0
        /\ \A k \in 1..9 : seg[k].end = seg[k + 1].start
        /\ seg[10].end = total
        /\ SumLengths(seg, 10) = total
        /\ \A j \in 0..(total - 1) :
              Cardinality({k \in 1..10 : seg[k].start <= j /\ j < seg[k].end}) = 1

\* a script of 20 lines or more whose length is no multiple of 10 was scored:
\* the segments hold two lines and the last one more
C2_Witness ==
    /\ Scored
    /\ Len(lines) >= 20
    /\ Len(lines) % 10 # 0
    /\ seg[1].end - seg[1].start = 2
    /\ seg[10].end - seg[10].start > 2

\* the vocabulary words found in a text, each once
Found(words, text) == {w \in {words[k] : k \in 1..Len(words)} : Contains(w, text)}

\* n/d (d > 0) is the quotient p/q (q > 0)
IsQuotient(score, p, q) == score[2] > 0 /\ score[1] * q = p * score[2]

\* the score the specification gives a text
IsScoreOf(score, text) ==
    LET p == Cardinality(Found(positive_words, text))
        n == Cardinality(Found(negative_words, text))
    IN IF p + n = 0 THEN score = <<0, 1>> ELSE IsQuotient(score, p - n, p + n)

\* C6: for a script of fewer than 10 lines segment_size is 0, segments 0..8
\* are empty and score 0, and segment 9 spans the whole script, so the tenth
\* score is the score of the whole script
C6_ShortScriptScoredInLastSegment ==
    (Scored /\ Len(lines) < 10) =>
        /\ \A k \in 1..10 : seg[k].segment_size = 0
        /\ \A k \in 1..9 :
              /\ seg[k].start = seg[k].end
              /\ scores[k] = <<0, 1>>
        /\ seg[10].start = 0
        /\ seg[10].end = Len(lines)
        /\ IsScoreOf(scores[10], lower(join(" ", lines)))

\* a script of 3 to 9 lines was scored and its tenth score is not 0
C6_Witness ==
    /\ Scored
    /\ Len(lines) \in 3..9
    /\ scores[10][1] # 0
    /\ seg[10].pos_count + seg[10].neg_count > 0

\* the text the specification gives segment k: its lines joined by one space, lowered
SpecText(k) == lower(join(" ", SubSeq(lines, SpecLo(k, Len(lines)) + 1, SpecHi(k, Len(lines)))))

\* the score of segment k is (pos_count - neg_count) / (pos_count + neg_count),
\* or 0 when no word was counted
ScoreFollowsCounts(k) ==
    /\ scores[k] = seg[k].sentiment
    /\ IF seg[k].pos_count + seg[k].neg_count = 0
       THEN scores[k] = <<0, 1>>
       ELSE IsQuotient(scores[k], seg[k].pos_count - seg[k].neg_count,
                       seg[k].pos_count + seg[k].neg_count)

\* C4 as stated: pos_count and neg_count are the numbers of occurrences of the
\* positive and of the negative words in the segment's text, the score follows
\* from them, and the ten scores are in segment order
C4_CountsAreOccurrences ==
    Scored =>
        /\ Len(scores) = 10
        /\ \A k \in 1..10 :
              /\ seg[k].pos_count =
                    CountWordOccurrences(positive_words, SpecText(k))
              /\ seg[k].neg_count =
                    CountWordOccurrences(negative_words, SpecText(k))
              /\ ScoreFollowsCounts(k)

\* C4 as amended: pos_count and neg_count are the numbers of positive and of
\* negative vocabulary words that occur at least once in the segment's
\* space-joined, lowered text (a word counts once however often it occurs),
\* the score follows from them, and the ten scores are in segment order
C4_CountsAreWordsFound ==
    Scored =>
        /\ Len(scores) = 10
        /\ \A k \in 1..10 :
              /\ seg[k].pos_count = Cardinality(Found(positive_words, SpecText(k)))
              /\ seg[k].neg_count = Cardinality(Found(negative_words, SpecText(k)))
              /\ ScoreFollowsCounts(k)

\* a segment whose text holds "good" twice and "bad" once was scored 0
C4_Witness ==
    /\ Scored
    /\ \E k \in 1..10 :
          /\ Occurrences("good", SpecText(k)) = 2
          /\ seg[k].pos_count = 1
          /\ seg[k].neg_count = 1
          /\ scores[k] = <<0, 1>>

\* C8: every score is in [-1, 1], and is 0 when the segment has no positive
\* and no negative hit
C8_ScoreInUnitInterval ==
    Scored =>
        \A k \in 1..Len(scores) :
            /\ scores[k][2] > 0
            /\ 0 - scores[k][2] <= scores[k][1]
            /\ scores[k][1] <= scores[k][2]
            /\ 0 - (seg[k].pos_count + seg[k].neg_count) <= seg[k].pos_count - seg[k].neg_count
            /\ seg[k].pos_count - seg[k].neg_count <= seg[k].pos_count + seg[k].neg_count
            /\ (seg[k].pos_count = 0 /\ seg[k].neg_count = 0) => scores[k] = <<0, 1>>

\* one run scored a segment 1, another -1, another strictly between, and
\* one without any hit 0
C8_Witness ==
    /\ Scored
    /\ \E k \in 1..10 : scores[k] = <<1, 1>> /\ seg[k].pos_count >= 2
    /\ \E k \in 1..10 : scores[k] = <<0 - 1, 1>>
    /\ \E k \in 1..10 : scores[k][2] > 1
    /\ \E k \in 1..10 : seg[k].pos_count + seg[k].neg_count = 0 /\ seg[k].end > seg[k].start

-----------------------------------------------------------------------------
(* The relationship graph: claim C9 *)

\* create_character_network has just returned its graph to main
Networked == pc = "report" /\ G # NoGraph

\* the authored edges at node n
Incident(n) == {k \in 1..Len(relationships) : n \in {relationships[k][1], relationships[k][2]}}

\* no self-loop, every edge an authored edge between two nodes of the graph
\* with its weight on both sides, every authored edge between two nodes present,
\* and every degree the number of authored edges at the node
EdgesAsAuthored(g) ==
    /\ \A n \in g.nodes : n \notin DOMAIN g.adj[n]
    /\ \A u \in g.nodes : \A v \in DOMAIN g.adj[u] :
          /\ v \in g.nodes
          /\ u \in DOMAIN g.adj[v]
          /\ g.adj[v][u] = g.adj[u][v]
          /\ \E k \in 1..Len(relationships) :
                /\ {relationships[k][1], relationships[k][2]} = {u, v}
                /\ relationships[k][3] = g.adj[u][v]
    /\ \A k \in 1..Len(relationships) :
          {relationships[k][1], relationships[k][2]} \subseteq g.nodes
              => {relationships[k][1], relationships[k][2]} \in Edges(g)
    /\ \A n \in g.nodes : Degree(g, n) = Cardinality(Incident(n))

\* the specification's example: edges (A,B,3), (B,C,1) over the roster A, B, C
ExampleGraph == BuildGraph(<<"A", "B", "C">>, << <<"A", "B", 3>>, <<"B", "C", 1>> >>)

\* C9 as stated: the graph's nodes are the roster the mention extractor scans
\* for, and its edges are as authored
C9_NodesAreMentionRoster ==
    Networked =>
        /\ G.nodes = Roster
        /\ EdgesAsAuthored(G)

\* C9 as amended: the graph's nodes are the network's own list of seven
\* characters, which is the extractor's roster without Mom and Dad; an
\* authored edge is in the graph only when both endpoints are in that list,
\* there is no self-loop, and each node's degree is the number of authored
\* edges at it (A=1, B=2, C=1 in the example)
C9_NodesAreNetworkList ==
    Networked =>
        /\ G.nodes = NetworkRoster
        /\ G.nodes = Roster \ {"Mom", "Dad"}
        /\ \A e \in Edges(G) : e \subseteq NetworkRoster /\ Cardinality(e) = 2
        /\ EdgesAsAuthored(G)
        /\ Degree(ExampleGraph, "A") = 1
        /\ Degree(ExampleGraph, "B") = 2
        /\ Degree(ExampleGraph, "C") = 1

\* the graph was built: Chihiro has six neighbours, Zeniba two, and Mom is no node
C9_Witness ==
    /\ Networked
    /\ Degree(G, "Chihiro") = 6
    /\ Degree(G, "Zeniba") = 2
    /\ G.adj["Haku"]["Chihiro"] = 3
    /\ "Mom" \notin G.nodes

-----------------------------------------------------------------------------
(* Running the analysis again: claim C7 *)

\* the counts the second call of extract_characters has built are those the
\* first call stored, and a later run on the same analyzer finds the lines,
\* the counts, the scores and the graph of the run before
RepeatsAgree ==
    /\ (pc = "scan" /\ caller = "generate_summary_report" /\ idx > Len(lines))
          => character_count = characters
    /\ pc = "report_ret" => Filtered(character_count) = filtered_chars
    /\ run >= 2 =>
          /\ lines = prev.lines
          /\ characters = prev.characters
          /\ scores # NoScores => scores = prev.scores
          /\ G # NoGraph => G = prev.G

\* C7: a second call of extract_characters counts from zero and arrives at the
\* counts of the first; a second run of the analysis on the same loaded script
\* returns the same counts, scores and graph; and no step after the load
\* changes the loaded lines
C7_RepeatedAnalysisIdentical ==
    /\ []RepeatsAgree
    /\ [][pc # "load" => lines' = lines]_vars

\* the analysis has run twice to its end on a script that mentions Haku twice
C7_Witness ==
    /\ run = 2
    /\ pc = "done"
    /\ characters["Haku"] = 2
    /\ characters = prev.characters
    /\ scores = prev.scores
    /\ G = prev.G
    /\ Len(lines) = 2

====
